---- MODULE Spec2Model ----
(***************************************************************************)
(* battmon: a battery monitor.  `battmon --log` samples the batteries      *)
(* under /sys/class/power_supply and appends one CSV row per battery to    *)
(* /var/log/battmon/<manufacturer>_<model>_<serial>.log; `battmon --graph` *)
(* reads the rows back (get_battery_history) and plots them.               *)
(*                                                                         *)
(* Python strings are modelled as sequences of one-character strings, so   *)
(* that strip(), str(int), float(str), the csv writer and the csv reader   *)
(* are computed character by character.  A Python float is modelled by a   *)
(* decimal n * 10^-e; binary rounding is not modelled.  The Month radio    *)
(* button is left out: 30 * MILLIS_IN_DAY is beyond the integers of the    *)
(* model checker; like Day and Week it puts the cutoff before the epoch.   *)
(***************************************************************************)
EXTENDS Integers, Sequences, FiniteSets, TLC

VARIABLES
    now,              \* the wall clock, milliseconds since the epoch (time.time() * 1000)
    supplies,         \* the entries of /sys/class/power_supply, in os.walk order
    mkdirFails,       \* os.mkdir(LOG_PATH) raises (the parent directory is not writable)
    denied,           \* names of files in LOG_PATH that open() refuses
    logdir,           \* LOG_PATH: whether it exists, and file name -> lines
    logged,           \* per battery, the field lists of the rows appended to its file so far
    lastOp,           \* the call made at this instant, "tick" when the clock moved since
    states,           \* the dictionary get_battery_states returned in that call
    written,          \* the batteries that call wrote a row for, in order
    stderr,           \* the diagnostics that call printed to sys.stderr
    exited,           \* that call ended in sys.exit() or in an uncaught exception
    exitStatus,       \* the exit status of its process when exited
    offset,           \* the offset get_battery_history was given in that call
    history,          \* what get_battery_history returned in that call
    MILLIS_IN_TOTAL,  \* set once when the --graph process loads the module
    timeframe         \* the radio button checked in the window

vars == <<now, supplies, mkdirFails, denied, logdir, logged, lastOp, states, written,
          stderr, exited, exitStatus, offset, history, MILLIS_IN_TOTAL, timeframe>>

---------------------------------------------------------------------------
(* Bounds of the model *)

MaxTime == 2            \* the clock reads 0..MaxTime
MaxRows == 2            \* rows per log file
MaxOffset == 1          \* offsets handed to get_battery_history directly
NumSupplies == 2        \* entries under POWER_SUPPLY_PATH

---------------------------------------------------------------------------
(* Strings *)

Digits == <<"0", "1", "2", "3", "4", "5", "6", "7", "8", "9">>
LowerCase == <<"a", "b", "c", "d", "e", "f", "g", "h", "i", "j", "k", "l", "m",
               "n", "o", "p", "q", "r", "s", "t", "u", "v", "w", "x", "y", "z">>
UpperCase == <<"A", "B", "C", "D", "E", "F", "G", "H", "I", "J", "K", "L", "M",
               "N", "O", "P", "Q", "R", "S", "T", "U", "V", "W", "X", "Y", "Z">>
Whitespace == {" ", "\n", "\t", "\r"}

Range(s) == {s[i] : i \in DOMAIN s}

DigitChars == Range(Digits)
LowerChars == Range(LowerCase)

IsDigit(c) == c \in DigitChars

DigitValue(c) == (CHOOSE i \in DOMAIN Digits : Digits[i] = c) - 1

\* str.upper() on one character
upper(c) ==
    IF c \in LowerChars
    THEN UpperCase[CHOOSE i \in DOMAIN LowerCase : LowerCase[i] = c]
    ELSE c

\* str.strip(): whitespace removed at both ends
RECURSIVE lstrip(_)
lstrip(s) == IF s # <<>> /\ Head(s) \in Whitespace THEN lstrip(Tail(s)) ELSE s

RECURSIVE rstrip(_)
rstrip(s) ==
    IF s # <<>> /\ s[Len(s)] \in Whitespace
    THEN rstrip(SubSeq(s, 1, Len(s) - 1))
    ELSE s

strip(s) == rstrip(lstrip(s))

\* str(n) of a non-negative int
RECURSIVE str(_)
str(n) == IF n < 10 THEN <<Digits[n + 1]>> ELSE str(n \div 10) \o <<Digits[(n % 10) + 1]>>

\* the value of a string of decimal digits
RECURSIVE DigitsValue(_)
DigitsValue(s) ==
    IF s = <<>> THEN 0
    ELSE 10 * DigitsValue(SubSeq(s, 1, Len(s) - 1)) + DigitValue(s[Len(s)])

\* "sep".join(parts)
RECURSIVE join(_, _)
join(sep, parts) ==
    IF parts = <<>> THEN <<>>
    ELSE IF Len(parts) = 1 THEN parts[1]
    ELSE parts[1] \o sep \o join(sep, Tail(parts))

IsPrefix(s, t) == Len(s) <= Len(t) /\ SubSeq(t, 1, Len(s)) = s

---------------------------------------------------------------------------
(* Module constants *)

BATTERY_DATA_FILES ==
    <<"capacity", "status", "technology", "energy_now", "energy_full_design", "voltage_now">>
REQUIRED_DATA_FILES ==
    <<"capacity", "status", "energy_now", "energy_full_design", "voltage_now">>
LOG_FILE_FIELDS == <<"time", "status", "capacity", "energy_now", "voltage_now">>
BATTERY_NAME_FILES == <<"manufacturer", "model_name", "serial_number">>

MILLIS_IN_DAY == 86400000
MILLIS_IN_WEEK == 7 * MILLIS_IN_DAY

millis_time == now

---------------------------------------------------------------------------
(* The host's power-supply interface: each supply is a directory of        *)
(* attribute files; a file is absent, or holds text ending in a newline.   *)

AttributeFiles == {"type"} \cup Range(BATTERY_NAME_FILES) \cup Range(BATTERY_DATA_FILES)

Absent == [exists |-> FALSE, content |-> <<>>]
File(text) == [exists |-> TRUE, content |-> text \o <<"\n">>]

Supply(type, manufacturer, model_name, serial_number, capacity, status, energy_now, voltage_now) ==
    [a \in AttributeFiles |->
        CASE a = "type" -> type
          [] a = "manufacturer" -> manufacturer
          [] a = "model_name" -> model_name
          [] a = "serial_number" -> serial_number
          [] a = "capacity" -> capacity
          [] a = "status" -> status
          [] a = "technology" -> File(<<"L", "i">>)
          [] a = "energy_now" -> energy_now
          [] a = "energy_full_design" -> File(<<"9", "0">>)
          [] a = "voltage_now" -> voltage_now]

Battery == <<"B", "a", "t", "t", "e", "r", "y">>
Discharging == <<"D", "i", "s", "c", "h", "a", "r", "g", "i", "n", "g">>
Full == <<"F", "u", "l", "l">>

\* a battery with every attribute: Acme_X1_42 at 76 %, discharging
BatA ==
    Supply(File(Battery), File(<<"A", "c", "m", "e">>), File(<<"X", "1">>), File(<<"4", "2">>),
           File(<<"7", "6">>), File(Discharging), File(<<"5">>), File(<<"7">>))
\* the same battery with no energy_now file
BatANoEnergy ==
    Supply(File(Battery), File(<<"A", "c", "m", "e">>), File(<<"X", "1">>), File(<<"4", "2">>),
           File(<<"7", "6">>), File(Discharging), Absent, File(<<"7">>))
\* a battery that names only its model: identity _B_, full at 100 %
BatB ==
    Supply(File(Battery), Absent, File(<<"B">>), Absent,
           File(<<"1", "0", "0">>), File(Full), File(<<"9">>), File(<<"8">>))
\* an AC adapter: a type file and nothing else
Mains ==
    Supply(File(<<"M", "a", "i", "n", "s">>), Absent, Absent, Absent,
           Absent, Absent, Absent, Absent)
\* a USB supply that exposes battery-like attributes
Usb ==
    Supply(File(<<"U", "S", "B">>), File(<<"U">>), File(<<"C">>), File(<<"1">>),
           File(<<"5", "0">>), File(Full), File(<<"3">>), File(<<"5">>))
\* a supply with battery attributes whose type file is missing
NoType ==
    Supply(Absent, File(<<"N">>), File(<<"T">>), File(<<"2">>),
           File(<<"4", "0">>), File(Discharging), File(<<"2">>), File(<<"6">>))
\* a supply whose type differs from "Battery" only in case
LowerBattery ==
    Supply(File(<<"b", "a", "t", "t", "e", "r", "y">>), File(<<"L">>), File(<<"W">>), File(<<"3">>),
           File(<<"3", "0">>), File(Full), File(<<"4">>), File(<<"6">>))

SupplyKinds == {"BatA", "BatANoEnergy", "BatB", "Mains", "Usb", "NoType", "LowerBattery"}

\* the attribute files of a supply
SupplyDir(kind) ==
    CASE kind = "BatA" -> BatA
      [] kind = "BatANoEnergy" -> BatANoEnergy
      [] kind = "BatB" -> BatB
      [] kind = "Mains" -> Mains
      [] kind = "Usb" -> Usb
      [] kind = "NoType" -> NoType
      [] kind = "LowerBattery" -> LowerBattery

\* /sys/class/power_supply: supply (in os.walk order) -> attribute -> file
sysfs == [i \in DOMAIN supplies |-> SupplyDir(supplies[i])]

Supplies == 1 .. NumSupplies

---------------------------------------------------------------------------
(* Python values held in rows and series *)

\* a float is n * 10^-e: the model's floats are whole numbers (e = 0) or whole
\* numbers of millionths (e = 6)
PyStr(s) == [t |-> "str", n |-> 0, e |-> 0, s |-> s]
PyInt(n) == [t |-> "int", n |-> n, e |-> 0, s |-> <<>>]
PyFloat(n, e) == [t |-> "float", n |-> n, e |-> e, s |-> <<>>]
PyList(items) == [t |-> "list", n |-> Len(items), e |-> 0, s |-> <<>>]
Datetime(micros) == [t |-> "datetime", n |-> micros, e |-> 0, s |-> <<>>]

\* str(v) as csv.writer applies it to a field
field_str(v) == IF v.t = "int" THEN str(v.n) ELSE v.s

---------------------------------------------------------------------------
(* State Reader *)

\* read_path: "" for a file that does not exist, else its stripped content
read_path(file) == IF ~file.exists THEN <<>> ELSE strip(file.content)

\* a Python dict: its keys in insertion order, and the values
EmptyDict == [keys |-> <<>>, val |-> <<>>]
DictHas(d, k) == \E i \in DOMAIN d.keys : d.keys[i] = k
DictSet(d, k, v) ==
    [keys |-> IF DictHas(d, k) THEN d.keys ELSE Append(d.keys, k),
     val |-> IF DictHas(d, k)
             THEN [i \in DOMAIN d.keys |-> IF d.keys[i] = k THEN v ELSE d.val[i]]
             ELSE Append(d.val, v)]
DictGet(d, k) == d.val[CHOOSE i \in DOMAIN d.keys : d.keys[i] = k]

battery_id(supply) ==
    join(<<"_">>, [i \in DOMAIN BATTERY_NAME_FILES |-> read_path(supply[BATTERY_NAME_FILES[i]])])

SnapshotKeys == Range(BATTERY_DATA_FILES) \cup {"time"}

snapshot(supply, t) ==
    [a \in SnapshotKeys |->
        IF a = "time" THEN PyInt(t)
        ELSE PyStr(read_path(supply[a]))]

\* the type compared without regard to case
IsBatteryTypeIgnoringCase(type) == [i \in DOMAIN type |-> upper(type[i])] = [i \in DOMAIN Battery |-> upper(Battery[i])]

IsBatteryType(type) == type = Battery

RECURSIVE battery_states_from(_, _, _, _)
battery_states_from(fs, i, t, acc) ==
    IF i > Len(fs) THEN acc
    ELSE battery_states_from(fs, i + 1, t,
            IF IsBatteryType(read_path(fs[i]["type"]))
            THEN DictSet(acc, battery_id(fs[i]), snapshot(fs[i], t))
            ELSE acc)

get_battery_states(fs, t) == battery_states_from(fs, 1, t, EmptyDict)

---------------------------------------------------------------------------
(* The csv module, excel dialect: delimiter ",", quotechar '"',            *)
(* QUOTE_MINIMAL, doublequote.  A file is the sequence of its lines.       *)

Delimiter == ","
QuoteChar == "\""

needs_quote(s) == \E i \in DOMAIN s : s[i] \in {Delimiter, QuoteChar, "\r", "\n"}

RECURSIVE double_quotes(_)
double_quotes(s) ==
    IF s = <<>> THEN <<>>
    ELSE (IF Head(s) = QuoteChar THEN <<QuoteChar, QuoteChar>> ELSE <<Head(s)>>)
         \o double_quotes(Tail(s))

csv_field(s) == IF needs_quote(s) THEN <<QuoteChar>> \o double_quotes(s) \o <<QuoteChar>> ELSE s

\* csv.writer.writerow: the line written for a list of fields
writerow(fields) == join(<<Delimiter>>, [i \in DOMAIN fields |-> csv_field(field_str(fields[i]))])

\* csv.reader on one line: the list of its fields
RECURSIVE csv_parse(_, _, _, _)
csv_parse(line, mode, cur, acc) ==
    IF line = <<>> THEN Append(acc, cur)
    ELSE LET c == Head(line)
             rest == Tail(line)
         IN  CASE mode = "start" /\ c = QuoteChar -> csv_parse(rest, "quoted", cur, acc)
               [] mode = "quoted" /\ c = QuoteChar -> csv_parse(rest, "quote_in_quoted", cur, acc)
               [] mode = "quoted" /\ c # QuoteChar -> csv_parse(rest, "quoted", Append(cur, c), acc)
               [] mode = "quote_in_quoted" /\ c = QuoteChar ->
                      csv_parse(rest, "quoted", Append(cur, c), acc)
               [] mode # "quoted" /\ c = Delimiter -> csv_parse(rest, "start", <<>>, Append(acc, cur))
               [] OTHER -> csv_parse(rest, "field", Append(cur, c), acc)

csv_reader(line) == csv_parse(line, "start", <<>>, <<>>)

\* csv.DictReader(log, LOG_FILE_FIELDS, restval=0): short rows are filled with the
\* int 0, the fields beyond the schema are collected in a list under the key None
RestKey == "None"

\* a reader that fills short rows with the empty string instead
DictReader_restval_empty(line) ==
    LET fields == csv_reader(line)
    IN  [keys |-> LOG_FILE_FIELDS,
         val |-> [i \in DOMAIN LOG_FILE_FIELDS |->
                     IF i <= Len(fields) THEN PyStr(fields[i]) ELSE PyStr(<<>>)]]

DictReader(line) ==
    LET fields == csv_reader(line)
        named == [keys |-> LOG_FILE_FIELDS,
                  val |-> [i \in DOMAIN LOG_FILE_FIELDS |->
                              IF i <= Len(fields) THEN PyStr(fields[i]) ELSE PyInt(0)]]
    IN  IF Len(fields) > Len(LOG_FILE_FIELDS)
        THEN DictSet(named, RestKey,
                     PyList(SubSeq(fields, Len(LOG_FILE_FIELDS) + 1, Len(fields))))
        ELSE named

---------------------------------------------------------------------------
(* The log directory *)

LogExt == <<".", "l", "o", "g">>
log_name(battery) == battery \o LogExt

NoDir == [exists |-> FALSE, files |-> <<>>]
FileNames(dir) == DOMAIN dir.files
Lines(dir, name) == IF name \in FileNames(dir) THEN dir.files[name] ELSE <<>>

\* open(path, 'w') and one write: the file is truncated
write_line_truncating(dir, name, line) ==
    [dir EXCEPT !.files = (name :> <<line>>) @@ dir.files]

\* open(path, 'a') and one write: the file is created if absent, the line is appended
append_line(dir, name, line) ==
    [dir EXCEPT !.files = (name :> Append(Lines(dir, name), line)) @@ dir.files]

mkdir(dir) == [exists |-> TRUE, files |-> dir.files]

---------------------------------------------------------------------------
(* History Store: append *)

\* the first required attribute that is empty, 0 if there is none
RECURSIVE first_missing(_, _)
first_missing(battery_state, i) ==
    IF i > Len(REQUIRED_DATA_FILES) THEN 0
    ELSE IF battery_state[REQUIRED_DATA_FILES[i]].s = <<>> THEN i
    ELSE first_missing(battery_state, i + 1)

\* the loop returning True after its first attribute
check_state_first_only(battery_state) == battery_state[REQUIRED_DATA_FILES[1]].s # <<>>

check_state(battery_state) == first_missing(battery_state, 1) = 0

MissingDiagnostic(battery, battery_state) ==
    [kind |-> "missing attribute", battery |-> battery,
     attribute |-> REQUIRED_DATA_FILES[first_missing(battery_state, 1)]]
WriteDiagnostic == [kind |-> "could not write", battery |-> <<>>, attribute |-> ""]

\* the row log_battery_state projects from a snapshot
log_fields(battery_state) == [i \in DOMAIN LOG_FILE_FIELDS |-> battery_state[LOG_FILE_FIELDS[i]]]

\* sys.exit() with no argument: SystemExit(None), exit status 0
sys_exit_status == 0
\* an uncaught exception ends the interpreter with status 1
uncaught_status == 1

\* the rows appended so far, with one more for battery
record_row(lg, battery, fields) ==
    (battery :> Append(IF battery \in DOMAIN lg THEN lg[battery] ELSE <<>>, fields)) @@ lg

\* the for loop of log_battery_state over states[i..]; an open() that raises
\* IOError leaves the loop
RECURSIVE log_loop(_, _, _)
log_loop(st, i, acc) ==
    IF i > Len(st.keys) THEN acc
    ELSE LET battery == st.keys[i]
             battery_state == st.val[i]
         IN  IF ~check_state(battery_state)
             THEN log_loop(st, i + 1,
                      [acc EXCEPT !.stderr = Append(@, MissingDiagnostic(battery, battery_state))])
             ELSE IF log_name(battery) \in acc.denied
             THEN [acc EXCEPT !.ioerror = TRUE]
             ELSE log_loop(st, i + 1,
                      [acc EXCEPT
                         !.dir = append_line(@, log_name(battery), writerow(log_fields(battery_state))),
                         !.logged = record_row(@, battery, log_fields(battery_state)),
                         !.written = Append(@, battery)])

\* log_battery_state: what the call leaves behind
log_battery_state(fs, t, dir, lg, mkdir_fails, no_open) ==
    LET st == get_battery_states(fs, t)
        start == [dir |-> dir, logged |-> lg, written |-> <<>>, stderr |-> <<>>,
                  ioerror |-> FALSE, denied |-> no_open]
        body == IF ~dir.exists /\ mkdir_fails
                THEN [start EXCEPT !.ioerror = TRUE]
                ELSE log_loop(st, 1, [start EXCEPT !.dir = IF dir.exists THEN dir ELSE mkdir(dir)])
    IN  [states |-> st,
         dir |-> body.dir,
         logged |-> body.logged,
         written |-> body.written,
         stderr |-> IF body.ioerror THEN Append(body.stderr, WriteDiagnostic) ELSE body.stderr,
         exited |-> body.ioerror,
         exitStatus |-> IF body.ioerror THEN sys_exit_status ELSE 0]

---------------------------------------------------------------------------
(* The logger of the first revision (src/battmon.py): three fields per row, *)
(* the status cut to its first letter, no check of the attributes and no    *)
(* handler: an exception ends the process.                                  *)

legacy_fields(supply, t) ==
    <<PyStr(str(t)), PyStr(<<upper(read_path(supply["status"])[1])>>), PyStr(read_path(supply["capacity"]))>>

RECURSIVE legacy_loop(_, _, _, _)
legacy_loop(fs, i, t, acc) ==
    IF i > Len(fs) THEN acc
    ELSE IF ~IsBatteryType(read_path(fs[i]["type"])) THEN legacy_loop(fs, i + 1, t, acc)
    ELSE IF read_path(fs[i]["status"]) = <<>> \/ log_name(battery_id(fs[i])) \in acc.denied
    THEN [acc EXCEPT !.raised = TRUE]
    ELSE legacy_loop(fs, i + 1, t,
             [acc EXCEPT
                !.dir = append_line(@, log_name(battery_id(fs[i])), writerow(legacy_fields(fs[i], t))),
                !.logged = record_row(@, battery_id(fs[i]), legacy_fields(fs[i], t))])

legacy_log_battery_state(fs, t, dir, lg, mkdir_fails, no_open) ==
    LET start == [dir |-> dir, logged |-> lg, raised |-> FALSE, denied |-> no_open]
    IN  IF ~dir.exists /\ mkdir_fails
        THEN [start EXCEPT !.raised = TRUE]
        ELSE legacy_loop(fs, 1, t, [start EXCEPT !.dir = IF dir.exists THEN dir ELSE mkdir(dir)])

---------------------------------------------------------------------------
(* History Store: read *)

\* float(s) succeeds: of the strings the model holds, the non-empty strings of digits
IsFloatStr(s) == s # <<>> /\ \A i \in DOMAIN s : IsDigit(s[i])

\* float(v) raises TypeError, which is_float does not catch, for a list
float_type_error(v) == v.t = "list"

is_float(v) ==
    CASE v.t = "int" -> TRUE
      [] v.t = "float" -> TRUE
      [] v.t = "str" -> IsFloatStr(v.s)
      [] OTHER -> FALSE

float(v) ==
    CASE v.t = "str" -> PyFloat(DigitsValue(v.s), 0)
      [] v.t = "int" -> PyFloat(v.n, 0)
      [] OTHER -> v

\* "energy" in f or "voltage" in f, over the keys of a row
is_micro_field(f) == f \in {"energy_now", "voltage_now"}

\* x / 1.0e6
div_million(x) == IF x.n % 1000000 = 0 THEN PyFloat(x.n \div 1000000, x.e) ELSE PyFloat(x.n, x.e + 6)

\* the first loop over a row: numeric fields become floats, energy and voltage scaled
convert_field(f, v) ==
    IF is_float(v)
    THEN IF is_micro_field(f) THEN div_million(float(v)) ELSE float(v)
    ELSE v

convert_row(row) ==
    [keys |-> row.keys, val |-> [i \in DOMAIN row.keys |-> convert_field(row.keys[i], row.val[i])]]

\* row["time"] > cutoff
strictly_after(time, cut) == time.n > cut

\* row["time"] >= cutoff; the time field is a whole number of milliseconds (e = 0)
at_or_after(time, cut) == time.n >= cut

\* the timestamp taken for seconds: the division by 1000.0 left out
fromtimestamp_undivided(time) == Datetime(time.n * 1000000)

\* datetime.datetime.fromtimestamp(row["time"] / 1000.0), in microseconds
fromtimestamp_millis(time) == Datetime(time.n * 1000)

LogFileFieldSet == Range(LOG_FILE_FIELDS)

EmptyData == [f \in LogFileFieldSet |-> <<>>]

\* a row raises: float() of the list under the key None (TypeError), or the
\* comparison of a str timestamp with the int cutoff (TypeError)
row_raises(raw, row) ==
    \/ \E i \in DOMAIN raw.val : float_type_error(raw.val[i])
    \/ DictGet(row, "time").t # "float"

\* list.insert(0, value): the value put in front
list_insert_front(series, value) == <<value>> \o series

\* data[k].append(row[k])
list_append(series, value) == Append(series, value)

\* the loop over the rows of one file
RECURSIVE read_rows(_, _, _, _)
read_rows(lines, i, cut, data) ==
    IF i > Len(lines) THEN [raised |-> FALSE, data |-> data]
    ELSE LET raw == DictReader(lines[i])
             row == convert_row(raw)
             time == DictGet(row, "time")
         IN  IF row_raises(raw, row) THEN [raised |-> TRUE, data |-> data]
             ELSE IF at_or_after(time, cut)
             THEN read_rows(lines, i + 1, cut,
                      [f \in LogFileFieldSet |->
                          list_append(data[f], IF f = "time" THEN fromtimestamp_millis(time)
                                               ELSE DictGet(row, f))])
             ELSE read_rows(lines, i + 1, cut, data)

\* os.path.splitext(name)[0]: the name up to its last dot, unless only dots precede it
splitext_root(name) ==
    LET dots == {i \in DOMAIN name : name[i] = "." /\ \E j \in 1 .. (i - 1) : name[j] # "."}
    IN  IF dots = {} THEN name
        ELSE SubSeq(name, 1, (CHOOSE i \in dots : \A j \in dots : j <= i) - 1)

history_key(logfile) == strip(splitext_root(logfile))

Raised == [raised |-> TRUE, val |-> <<>>]
NoHistory == [raised |-> FALSE, val |-> <<>>]

\* get_battery_history(offset): an exception in any file leaves the function, so the
\* result does not depend on the order in which os.listdir lists the files
get_battery_history(off, dir, t, no_open) ==
    LET cut == t - off
        one == [name \in FileNames(dir) |->
                   IF name \in no_open THEN [raised |-> TRUE, data |-> EmptyData]
                   ELSE read_rows(dir.files[name], 1, cut, EmptyData)]
        ids == {history_key(name) : name \in FileNames(dir)}
    IN  IF ~dir.exists THEN Raised
        ELSE IF \E name \in FileNames(dir) : one[name].raised THEN Raised
        ELSE [raised |-> FALSE,
              val |-> [id \in ids |->
                          one[CHOOSE name \in FileNames(dir) : history_key(name) = id].data]]

---------------------------------------------------------------------------
(* The window of battmon --graph *)

Timeframes == {"Day", "Week", "All"}

\* Window.plot: the offset of the checked radio button
plot_offset(tf, total) ==
    CASE tf = "Day" -> MILLIS_IN_DAY
      [] tf = "Week" -> MILLIS_IN_WEEK
      [] OTHER -> total

\* update_battery_data: int(states[battery]["capacity"]) raises ValueError
update_battery_data_raises(st) ==
    \E i \in DOMAIN st.val : ~IsFloatStr(st.val[i]["capacity"].s)

---------------------------------------------------------------------------
(* The state machine *)

\* the supplies battmon --log meets in the runs of the logger
LoggerKinds == {"BatA", "BatANoEnergy", "BatB"}

BatteryLogNames ==
    {log_name(battery_id(SupplyDir(k))) :
        k \in {q \in SupplyKinds : IsBatteryType(read_path(SupplyDir(q)["type"]))}}

\* nothing has been called
NoCall ==
    /\ lastOp = "init"
    /\ states = EmptyDict
    /\ written = <<>>
    /\ stderr = <<>>
    /\ exited = FALSE
    /\ exitStatus = 0
    /\ offset = 0
    /\ history = NoHistory

NoGraph ==
    /\ MILLIS_IN_TOTAL = 0
    /\ timeframe = "none"

Init ==
    /\ now = 0
    /\ supplies \in [Supplies -> LoggerKinds]
    /\ \/ mkdirFails = FALSE /\ denied \in {{}} \cup {{name} : name \in BatteryLogNames}
       \/ mkdirFails = TRUE /\ denied = {}
    /\ logdir = NoDir
    /\ logged = <<>>
    /\ NoCall
    /\ NoGraph

\* the clock advances by a millisecond
Tick ==
    /\ now < MaxTime
    /\ now' = now + 1
    /\ lastOp' = "tick"
    /\ states' = EmptyDict
    /\ written' = <<>>
    /\ stderr' = <<>>
    /\ exited' = FALSE
    /\ exitStatus' = 0
    /\ offset' = 0
    /\ history' = NoHistory
    /\ UNCHANGED <<supplies, mkdirFails, denied, logdir, logged, MILLIS_IN_TOTAL, timeframe>>

\* a call of get_battery_states
GetBatteryStates ==
    /\ lastOp' = "states"
    /\ states' = get_battery_states(sysfs, millis_time)
    /\ written' = <<>>
    /\ stderr' = <<>>
    /\ exited' = FALSE
    /\ exitStatus' = 0
    /\ offset' = 0
    /\ history' = NoHistory
    /\ UNCHANGED <<now, supplies, mkdirFails, denied, logdir, logged, MILLIS_IN_TOTAL, timeframe>>

\* battmon --log, while no file grows beyond max rows
LogBatteryStateWithin(max) ==
    LET r == log_battery_state(sysfs, millis_time, logdir, logged, mkdirFails, denied)
    IN  /\ \A name \in FileNames(r.dir) : Len(r.dir.files[name]) <= max
        /\ lastOp' = "log"
        /\ states' = r.states
        /\ logdir' = r.dir
        /\ logged' = r.logged
        /\ written' = r.written
        /\ stderr' = r.stderr
        /\ exited' = r.exited
        /\ exitStatus' = r.exitStatus
        /\ offset' = 0
        /\ history' = NoHistory
        /\ UNCHANGED <<now, supplies, mkdirFails, denied, MILLIS_IN_TOTAL, timeframe>>

LogBatteryState == LogBatteryStateWithin(MaxRows)

\* a call of get_battery_history(offset); an exception it raises is not caught
GetBatteryHistory(off) ==
    LET h == get_battery_history(off, logdir, millis_time, denied)
    IN  /\ lastOp' = "history"
        /\ offset' = off
        /\ history' = h
        /\ states' = EmptyDict
        /\ written' = <<>>
        /\ stderr' = <<>>
        /\ exited' = h.raised
        /\ exitStatus' = IF h.raised THEN uncaught_status ELSE 0
        /\ UNCHANGED <<now, supplies, mkdirFails, denied, logdir, logged, MILLIS_IN_TOTAL, timeframe>>

\* Window.plot with the radio button tf checked, in a process whose module was
\* loaded when the clock read total
Plot(tf, total) ==
    LET h == get_battery_history(plot_offset(tf, total), logdir, millis_time, denied)
    IN  /\ lastOp' = "plot"
        /\ offset' = plot_offset(tf, total)
        /\ history' = h
        /\ written' = <<>>
        /\ stderr' = <<>>
        /\ exited' = h.raised
        /\ exitStatus' = IF h.raised THEN uncaught_status ELSE 0
        /\ UNCHANGED <<now, supplies, mkdirFails, denied, logdir, logged>>

\* battmon --graph: the module is loaded (MILLIS_IN_TOTAL = millis_time()), the window
\* is built with Week checked, and Window.update fills it; an exception in
\* Window.__init__ ends the process before the window is shown
StartGraph ==
    /\ timeframe = "none"
    /\ states' = get_battery_states(sysfs, millis_time)
    /\ ~update_battery_data_raises(states')
    /\ Plot("Week", millis_time)
    /\ IF history'.raised
       THEN UNCHANGED <<MILLIS_IN_TOTAL, timeframe>>
       ELSE MILLIS_IN_TOTAL' = millis_time /\ timeframe' = "Week"

\* a click on a radio button: clicked is connected to Window.plot
ClickTimeframe(tf) ==
    /\ timeframe # "none"
    /\ states' = EmptyDict
    /\ timeframe' = tf
    /\ Plot(tf, MILLIS_IN_TOTAL)
    /\ UNCHANGED MILLIS_IN_TOTAL

Next ==
    \/ Tick
    \/ LogBatteryState
    \/ \E off \in 0 .. MaxOffset : GetBatteryHistory(off)

Spec == Init /\ [][Next]_vars

\* battmon --log of the first revision, while no file grows beyond max rows
LegacyLogBatteryStateWithin(max) ==
    LET r == legacy_log_battery_state(sysfs, millis_time, logdir, logged, mkdirFails, denied)
    IN  /\ \A name \in FileNames(r.dir) : Len(r.dir.files[name]) <= max
        /\ lastOp' = "legacy log"
        /\ logdir' = r.dir
        /\ logged' = r.logged
        /\ states' = EmptyDict
        /\ written' = <<>>
        /\ stderr' = <<>>
        /\ exited' = r.raised
        /\ exitStatus' = IF r.raised THEN uncaught_status ELSE 0
        /\ offset' = 0
        /\ history' = NoHistory
        /\ UNCHANGED <<now, supplies, mkdirFails, denied, MILLIS_IN_TOTAL, timeframe>>

LegacyLogBatteryState == LegacyLogBatteryStateWithin(MaxRows)

\* rows that neither logger writes: a row of four fields,
FourFieldRows ==
    {<<PyStr(<<"1">>), PyStr(<<"F">>), PyStr(<<"5", "0">>), PyStr(<<"3">>)>>}
\* a row whose timestamp is no number, and a row with more fields than the schema
BadRows ==
    {<<PyStr(<<"x">>), PyStr(<<"F">>), PyStr(<<"5", "0">>)>>,
     <<PyStr(<<"1">>), PyStr(<<"F">>), PyStr(<<"5", "0">>), PyStr(<<"3">>), PyStr(<<"4">>), PyStr(<<"5">>)>>}

\* the content of a log file is input to get_battery_history: a row is added to a
\* battery's file from outside the program
ForeignAppendWithin(max, battery, fields) ==
    /\ logdir.exists
    /\ Len(Lines(logdir, log_name(battery))) < max
    /\ lastOp' = "foreign"
    /\ logdir' = append_line(logdir, log_name(battery), writerow(fields))
    /\ logged' = record_row(logged, battery, fields)
    /\ states' = EmptyDict
    /\ written' = <<>>
    /\ stderr' = <<>>
    /\ exited' = FALSE
    /\ exitStatus' = 0
    /\ offset' = 0
    /\ history' = NoHistory
    /\ UNCHANGED <<now, supplies, mkdirFails, denied, MILLIS_IN_TOTAL, timeframe>>

ForeignAppend(battery, fields) == ForeignAppendWithin(MaxRows, battery, fields)

\* the supplies of every kind, read and logged, on a writable store
InitReader ==
    /\ now = 0
    /\ supplies \in [Supplies -> SupplyKinds]
    /\ mkdirFails = FALSE
    /\ denied = {}
    /\ logdir = NoDir
    /\ logged = <<>>
    /\ NoCall
    /\ NoGraph

NextReader ==
    \/ Tick
    \/ GetBatteryStates
    \/ LogBatteryState

SpecReader == InitReader /\ [][NextReader]_vars

\* the logger and the window
InitGraph ==
    /\ now = 0
    /\ supplies \in [Supplies -> {"BatA", "BatB"}]
    /\ mkdirFails = FALSE
    /\ denied = {}
    /\ logdir = NoDir
    /\ logged = <<>>
    /\ NoCall
    /\ NoGraph

NextGraph ==
    \/ Tick
    \/ LogBatteryState
    \/ StartGraph
    \/ \E tf \in Timeframes : ClickTimeframe(tf)

SpecGraph == InitGraph /\ [][NextGraph]_vars

StoreBatteries == {battery_id(SupplyDir(k)) : k \in {"BatA", "BatB"}}

\* a store that both revisions of the logger have filled, with rows of four fields
\* among theirs: one battery beside the mains, and room in its file for a row of
\* each of the three writers
MixedRows == MaxRows + 1

InitLegacy ==
    /\ now = 0
    /\ supplies = [i \in Supplies |-> IF i = 1 THEN "BatA" ELSE "Mains"]
    /\ mkdirFails = FALSE
    /\ denied = {}
    /\ logdir = NoDir
    /\ logged = <<>>
    /\ NoCall
    /\ NoGraph

NextLegacy ==
    \/ Tick
    \/ LogBatteryStateWithin(MixedRows)
    \/ LegacyLogBatteryStateWithin(MixedRows)
    \/ \E fields \in FourFieldRows :
           ForeignAppendWithin(MixedRows, battery_id(SupplyDir("BatA")), fields)
    \/ \E off \in 0 .. MaxOffset : GetBatteryHistory(off)

SpecLegacy == InitLegacy /\ [][NextLegacy]_vars

\* a store in which a file may be unreadable or hold a row that cannot be parsed
InitStore ==
    /\ now = 0
    /\ supplies \in [Supplies -> {"BatA", "BatB"}]
    /\ mkdirFails = FALSE
    /\ denied \in {{}} \cup {{log_name(battery)} : battery \in StoreBatteries}
    /\ logdir = NoDir
    /\ logged = <<>>
    /\ NoCall
    /\ NoGraph

NextStore ==
    \/ Tick
    \/ LegacyLogBatteryState
    \/ \E battery \in StoreBatteries : \E fields \in BadRows : ForeignAppend(battery, fields)
    \/ \E off \in 0 .. MaxOffset : GetBatteryHistory(off)

SpecStore == InitStore /\ [][NextStore]_vars

---------------------------------------------------------------------------
(* Properties *)

\* the cutoff of the call: now - offset
Cutoff == now - offset

LastLine(name) == logdir.files[name][Len(logdir.files[name])]

RawStatus(battery) == DictGet(states, battery)["status"].s

\* C1: every row log_battery_state appends carries, as its second field, the first
\* character of the supply's raw status string, upper-cased, and not the whole string.
C1_StatusFieldIsFirstCharUpper ==
    lastOp = "log" =>
        \A i \in DOMAIN written :
            csv_reader(LastLine(log_name(written[i])))[2] = <<upper(RawStatus(written[i])[1])>>

\* the timestamps log_battery_state has written for a battery
LoggedTime(battery, i) == logged[battery][i][1].n
LoggedStatus(battery, i) == logged[battery][i][2].s
LoggedCapacity(battery, i) == logged[battery][i][3].s

\* C2: a get_battery_history call whose cutoff is at or before the timestamp of a row
\* that log_battery_state appended returns, under the battery's key, a point with that
\* timestamp, the number the written capacity denotes and the written status.
C2_RoundTrip ==
    lastOp = "history" =>
        \A battery \in DOMAIN logged : \A i \in DOMAIN logged[battery] :
            LoggedTime(battery, i) >= Cutoff =>
                /\ ~history.raised
                /\ battery \in DOMAIN history.val
                /\ LET data == history.val[battery]
                   IN  \E j \in DOMAIN data["time"] :
                           /\ data["time"][j] = Datetime(1000 * LoggedTime(battery, i))
                           /\ data["capacity"][j] = PyFloat(DigitsValue(LoggedCapacity(battery, i)), 0)
                           /\ data["status"][j] = PyStr(LoggedStatus(battery, i))

C2_Witness ==
    /\ lastOp = "history"
    /\ \E battery \in DOMAIN logged : \E i \in DOMAIN logged[battery] :
           /\ LoggedTime(battery, i) >= Cutoff
           /\ Len(LoggedCapacity(battery, i)) > 1
           /\ Len(history.val[battery]["time"]) = 1
           /\ Len(logged[battery]) = 2

HasEmptyRequired(battery_state) ==
    \E a \in Range(REQUIRED_DATA_FILES) : battery_state[a].s = <<>>

\* C3: in a log_battery_state call that meets no storage error, a battery with an
\* empty required attribute gets no row and no new log file, and every other battery
\* of the call gets exactly one row appended.
C3_SkipDoesNotAbort ==
    [][(lastOp' = "log" /\ ~exited') =>
          \A i \in DOMAIN states'.keys :
              LET name == log_name(states'.keys[i])
              IN  IF HasEmptyRequired(states'.val[i])
                  THEN /\ (name \in FileNames(logdir') <=> name \in FileNames(logdir))
                       /\ Lines(logdir', name) = Lines(logdir, name)
                  ELSE /\ Len(Lines(logdir', name)) = Len(Lines(logdir, name)) + 1
                       /\ IsPrefix(Lines(logdir, name), Lines(logdir', name))]_vars

C3_Witness ==
    /\ lastOp = "log"
    /\ ~exited
    /\ Len(states.keys) = 2
    /\ HasEmptyRequired(states.val[1])
    /\ log_name(states.keys[1]) \notin FileNames(logdir)
    /\ ~HasEmptyRequired(states.val[2])
    /\ written = <<states.keys[2]>>
    /\ stderr # <<>>

\* the timestamps logged for a battery that are at or after cut, in append order
RECURSIVE TimesFrom(_, _, _)
TimesFrom(battery, i, cut) ==
    IF i > Len(logged[battery]) THEN <<>>
    ELSE (IF LoggedTime(battery, i) >= cut
          THEN <<Datetime(1000 * LoggedTime(battery, i))>> ELSE <<>>)
         \o TimesFrom(battery, i + 1, cut)

\* C4: get_battery_history(offset) returns a row if and only if its timestamp is at or
\* after cutoff = now - offset: a row at the cutoff is returned, a row one millisecond
\* before it is not.
C4_CutoffBoundary ==
    (lastOp = "history" /\ ~history.raised) =>
        \A battery \in DOMAIN logged :
            history.val[battery]["time"] = TimesFrom(battery, 1, Cutoff)

C4_Witness ==
    /\ lastOp = "history"
    /\ ~history.raised
    /\ \E battery \in DOMAIN logged :
           /\ \E i \in DOMAIN logged[battery] : LoggedTime(battery, i) = Cutoff
           /\ \E i \in DOMAIN logged[battery] : LoggedTime(battery, i) = Cutoff - 1
           /\ Len(history.val[battery]["time"]) = 1

\* C6: the store is append-only: across every call each log file keeps its content as
\* a prefix of its new content, and get_battery_history leaves the directory as it was.
C6_AppendOnly ==
    [][/\ logdir.exists => logdir'.exists
       /\ \A name \in FileNames(logdir) :
              /\ name \in FileNames(logdir')
              /\ IsPrefix(logdir.files[name], logdir'.files[name])
       /\ lastOp' \in {"history", "plot"} => logdir' = logdir]_vars

C6_Witness ==
    /\ lastOp = "log"
    /\ \E name \in FileNames(logdir) : Len(logdir.files[name]) = 2

\* C7: when the log directory cannot be created or a log file cannot be opened,
\* log_battery_state prints a diagnostic and the process exits with a failure status.
C7_StorageFailureExitsWithFailure ==
    (lastOp = "log" /\ exited) =>
        /\ \E i \in DOMAIN stderr : stderr[i] = WriteDiagnostic
        /\ exitStatus # 0

\* the type file of supply j holds exactly Battery
TypeFileIsBattery(j) == sysfs[j]["type"].exists /\ strip(sysfs[j]["type"].content) = Battery

\* C5: get_battery_states holds a snapshot only for supplies whose type attribute is
\* exactly "Battery": every key is the identity of such a supply and carries that
\* supply's attributes; a supply of another type, or without a type file, adds no key,
\* no data and no log file.
C5_OnlyBatteries ==
    /\ lastOp \in {"states", "log"} =>
           \A i \in DOMAIN states.keys :
               \E j \in Supplies :
                   /\ TypeFileIsBattery(j)
                   /\ states.keys[i] = battery_id(sysfs[j])
                   /\ \A a \in Range(BATTERY_DATA_FILES) :
                          states.val[i][a].s = read_path(sysfs[j][a])
    /\ \A name \in FileNames(logdir) :
           \E j \in Supplies : TypeFileIsBattery(j) /\ name = log_name(battery_id(sysfs[j]))

C5_Witness ==
    /\ lastOp = "states"
    /\ Len(states.keys) = 1
    /\ \E j \in Supplies : supplies[j] \in {"Usb", "NoType", "LowerBattery"}

\* the text of field k of row i appended for a battery
FieldText(battery, i, k) == field_str(logged[battery][i][k])
RowLen(battery, i) == Len(logged[battery][i])
IsNumber(text) == text # <<>> /\ \A c \in Range(text) : c \in Range(Digits)

\* a row the reader can parse: at most five fields and a numeric timestamp
WellFormedRow(battery, i) ==
    RowLen(battery, i) <= Len(LOG_FILE_FIELDS) /\ IsNumber(FieldText(battery, i, 1))
WellFormedFile(battery) ==
    /\ log_name(battery) \notin denied
    /\ \A i \in DOMAIN logged[battery] : WellFormedRow(battery, i)

\* the value of a status or capacity field as the reader returns it
ExpectedPlain(text) == IF IsNumber(text) THEN PyFloat(DigitsValue(text), 0) ELSE PyStr(text)
\* the value of an energy_now or voltage_now field, zero when the row has none
ExpectedMicro(battery, i, k) ==
    IF RowLen(battery, i) < k THEN PyFloat(0, 0)
    ELSE IF ~IsNumber(FieldText(battery, i, k)) THEN PyStr(FieldText(battery, i, k))
    ELSE IF DigitsValue(FieldText(battery, i, k)) = 0 THEN PyFloat(0, 0)
    ELSE PyFloat(DigitsValue(FieldText(battery, i, k)), 6)

ExpectedPoint(battery, i) ==
    [f \in Range(LOG_FILE_FIELDS) |->
        CASE f = "time" -> Datetime(1000 * DigitsValue(FieldText(battery, i, 1)))
          [] f = "status" -> ExpectedPlain(FieldText(battery, i, 2))
          [] f = "capacity" -> ExpectedPlain(FieldText(battery, i, 3))
          [] f = "energy_now" -> ExpectedMicro(battery, i, 4)
          [] f = "voltage_now" -> ExpectedMicro(battery, i, 5)]

\* the points of the rows at or after the cutoff, in file order
RECURSIVE ExpectedSeries(_, _, _)
ExpectedSeries(battery, i, f) ==
    IF i > Len(logged[battery]) THEN <<>>
    ELSE (IF DigitsValue(FieldText(battery, i, 1)) >= Cutoff
          THEN <<ExpectedPoint(battery, i)[f]>> ELSE <<>>)
         \o ExpectedSeries(battery, i + 1, f)

\* C8: a log file that cannot be opened, or that holds a row that cannot be parsed, is
\* skipped for its battery only: get_battery_history still returns, with the series of
\* every other battery's well-formed file.
C8_BadFileSkipped ==
    (lastOp = "history" /\ logdir.exists) =>
        /\ ~history.raised
        /\ \A battery \in DOMAIN logged :
               WellFormedFile(battery) =>
                   /\ battery \in DOMAIN history.val
                   /\ \A f \in Range(LOG_FILE_FIELDS) :
                          history.val[battery][f] = ExpectedSeries(battery, 1, f)

\* C9: when every file is readable and every row has at most five fields and a numeric
\* timestamp, get_battery_history returns, for each row at or after the cutoff, the
\* row's timestamp, status and capacity, and zero for the energy_now and voltage_now
\* that a row of three or four fields lacks; rows of 3, 4 and 5 fields mix in one file.
C9_LegacyRowsDefaultToZero ==
    (lastOp = "history" /\ \A battery \in DOMAIN logged : WellFormedFile(battery)) =>
        /\ logdir.exists => ~history.raised
        /\ \A battery \in DOMAIN logged :
               \A f \in Range(LOG_FILE_FIELDS) :
                   history.val[battery][f] = ExpectedSeries(battery, 1, f)

C9_Witness ==
    /\ lastOp = "history"
    /\ ~history.raised
    /\ \E battery \in DOMAIN logged :
           /\ {RowLen(battery, i) : i \in DOMAIN logged[battery]} = {3, 4, 5}
           /\ Len(history.val[battery]["time"]) = 3
           /\ \E j \in 1 .. 3 :
                  /\ history.val[battery]["energy_now"][j] = PyFloat(0, 0)
                  /\ history.val[battery]["voltage_now"][j] = PyFloat(0, 0)

\* C10: whenever Window.plot runs with All checked, the cutoff is at or before the
\* timestamp of every row in the log files, and every row is in the returned series.
C10_AllTimeKeepsEveryRow ==
    (lastOp = "plot" /\ timeframe = "All" /\ ~history.raised) =>
        \A battery \in DOMAIN logged :
            /\ \A i \in DOMAIN logged[battery] : Cutoff <= LoggedTime(battery, i)
            /\ Len(history.val[battery]["time"]) = Len(logged[battery])

\* the timestamp a row of a battery's file carries
RowTime(battery, i) == DigitsValue(FieldText(battery, i, 1))

\* the positions, in file order, of the rows of a battery's file at or after the cutoff
RECURSIVE KeptRows(_, _)
KeptRows(battery, i) ==
    IF i > Len(logged[battery]) THEN <<>>
    ELSE (IF RowTime(battery, i) >= Cutoff THEN <<i>> ELSE <<>>) \o KeptRows(battery, i + 1)

\* C11: in what get_battery_history returns, every key is a battery with a log file,
\* its five lists have one length, the number of rows of the file with timestamp >=
\* cutoff, and entry j of every list comes from the j-th such row in file order (no
\* sorting by timestamp); a file whose rows are all before the cutoff gives five
\* empty lists.
C11_SeriesInFileOrder ==
    (lastOp = "history" /\ ~history.raised) =>
        /\ DOMAIN history.val = DOMAIN logged
        /\ \A battery \in DOMAIN history.val :
               LET kept == KeptRows(battery, 1)
               IN  \A f \in Range(LOG_FILE_FIELDS) :
                       /\ Len(history.val[battery][f]) = Len(kept)
                       /\ \A j \in DOMAIN kept :
                              history.val[battery][f][j] = ExpectedPoint(battery, kept[j])[f]
                       /\ (\A i \in DOMAIN logged[battery] : RowTime(battery, i) < Cutoff)
                              => history.val[battery][f] = <<>>

\* a row before the cutoff is left out and the two rows returned are in file order,
\* the later timestamp first
C11_Witness ==
    /\ lastOp = "history"
    /\ ~history.raised
    /\ \E battery \in DOMAIN history.val :
           /\ Len(logged[battery]) = 3
           /\ Len(history.val[battery]["time"]) = 2
           /\ history.val[battery]["time"][1].n > history.val[battery]["time"][2].n

====
